---- MODULE Spec2Model ----
(***************************************************************************)
(* MobileNet V3 graph builder (mobilenet_v3_keras.py).                     *)
(*                                                                         *)
(* Channel counts are integers.  A value handed to the rounding function   *)
(* is a rational [n |-> numerator, d |-> denominator] with d > 0: the      *)
(* width multiplier, the squeeze-excite ratio and the rounding bias are    *)
(* fractions, and channels * alpha is their exact product.                 *)
(***************************************************************************)
EXTENDS Integers, Sequences, FiniteSets, TLC

VARIABLES CONFIG, thr, nbuilds, rt, blk

vars == <<CONFIG, thr, nbuilds, rt, blk>>

\* ------------------------------------------------------------------ bounds
\* Largest |numerator| of a value given to the rounding function, and the
\* largest divisor.
MaxNum == 84
MaxDiv == 8
\* Number of create_mobilenet_v3 calls in one run.
MaxBuilds == 2

\* ------------------------------------------------------- rational numbers
Rat(n, d) == [n |-> n, d |-> d]

Int2Rat(k) == Rat(k, 1)

\* k * q, the product of an integer and a fraction (c[0] * alpha).
Times(k, q) == Rat(k * q.n, q.d)

\* Python's int(): truncation toward zero of the rational p / q, q > 0.
PyInt(p, q) == IF p >= 0 THEN p \div q ELSE -((-p) \div q)

\* Python's max() of two integers.
PyMax(a, b) == IF a >= b THEN a ELSE b

\* ------------------------------------------------- _round_to_multiple_of
DefaultBias == Rat(9, 10)

\* assert 0.0 < round_up_bias < 1.0
BiasOK(bias) == 0 < bias.n /\ bias.n < bias.d

\* Mutant: the floor at one divisor step is lost.
NewValNoFloor(val, divisor) ==
    (PyInt(2 * val.n + divisor * val.d, 2 * val.d) \div divisor) * divisor

\* Mutant: a whole divisor is added before truncating, not half of one.
NewValFullStep(val, divisor) ==
    PyMax(divisor, (PyInt(val.n + divisor * val.d, val.d) \div divisor) * divisor)

\* new_val = max(divisor, int(val + divisor / 2) // divisor * divisor)
\* val + divisor / 2 = (2 * val.n + divisor * val.d) / (2 * val.d); Python's
\* // is floor division, as is \div.
NewVal(val, divisor) ==
    PyMax(divisor,
          (PyInt(2 * val.n + divisor * val.d, 2 * val.d) \div divisor) * divisor)

\* Mutant: the comparison with round_up_bias * val is strict.
RoundUpStrict(val, divisor, bias) ==
    LET new_val == NewVal(val, divisor)
    IN  IF new_val * bias.d * val.d > bias.n * val.n
        THEN new_val
        ELSE new_val + divisor

\* return new_val if new_val >= round_up_bias * val else new_val + divisor
\* new_val >= bias * val  <=>  new_val * bias.d * val.d >= bias.n * val.n
RoundUp(val, divisor, bias) ==
    LET new_val == NewVal(val, divisor)
    IN  IF new_val * bias.d * val.d >= bias.n * val.n
        THEN new_val
        ELSE new_val + divisor

\* The whole function: the assertion, then the rounded value.
_round_to_multiple_of(val, divisor, round_up_bias) ==
    IF BiasOK(round_up_bias)
    THEN [err |-> "none", val |-> RoundUp(val, divisor, round_up_bias)]
    ELSE [err |-> "AssertionError", val |-> 0]

\* _round_to_multiple_of(val, 8): the call every channel scaling makes.
Round8(val) == _round_to_multiple_of(val, 8, DefaultBias).val

\* ------------------------------------------------------------ activations
\* _activation(x, name): relu and hardswish keep the tensor's shape, any
\* other name raises ValueError.
_activation(x, name) ==
    IF name = "relu" \/ name = "hardswish"
    THEN [err |-> "none", x |-> x]
    ELSE [err |-> "ValueError", x |-> x]

\* ----------------------------------------------------------------- tensors
\* A tensor is its channel count and its spatial size; its numbers are the
\* tensor engine's business.
Tensor(ch, hw) == [ch |-> ch, hw |-> hw]

\* Output size of a convolution with padding="same": ceil(hw / strides).
SameOut(hw, strides) == (hw + strides - 1) \div strides

\* ----------------------------------------------------------- layer records
Conv2D(filters, kernel_size, strides, dilation_rate, use_bias) ==
    [kind |-> "Conv2D", filters |-> filters, kernel_size |-> kernel_size,
     strides |-> strides, dilation_rate |-> dilation_rate, use_bias |-> use_bias]

DepthwiseConv2D(kernel_size, strides, dilation_rate) ==
    [kind |-> "DepthwiseConv2D", kernel_size |-> kernel_size, strides |-> strides,
     dilation_rate |-> dilation_rate, use_bias |-> FALSE]

BatchNormalization == [kind |-> "BatchNormalization"]

\* keras.layers.Lambda(lambda x: _activation(x, self.activation))
Lambda(activation) == [kind |-> "Lambda", activation |-> activation]

\* ---------------------------------------------------- _SqueezeAndExcitation
\* se_ratio is [some |-> FALSE, ...] for None, else the fraction n / d.
None == [some |-> FALSE, n |-> 0, d |-> 1]

Ratio(n, d) == [some |-> TRUE, n |-> n, d |-> d]

\* __init__: ValueError unless se_ratio > 0; the reduce convolution has
\* _round_to_multiple_of(channels * se_ratio, 8) filters, the expand
\* convolution has channels filters, both with a bias.
_SqueezeAndExcitation(channels, se_ratio) ==
    IF se_ratio.n <= 0
    THEN [kind |-> "_SqueezeAndExcitation", err |-> "ValueError"]
    ELSE [kind |-> "_SqueezeAndExcitation", err |-> "none",
          channels |-> channels, se_ratio |-> se_ratio,
          reduce |-> Conv2D(Round8(Times(channels, se_ratio)), 1, 1, 1, TRUE),
          expand |-> Conv2D(channels, 1, 1, 1, TRUE)]

\* -------------------------------------------------- _ConvBnActivationBlock
_ConvBnActivationBlock(out_ch, kernel_size, stride, padding, dilation, activation) ==
    [out_ch |-> out_ch, kernel_size |-> kernel_size, stride |-> stride,
     padding |-> padding, dilation |-> dilation, activation |-> activation,
     conv |-> Conv2D(out_ch, kernel_size, stride, dilation, FALSE),
     bn |-> BatchNormalization]

\* call: conv, bn, then the activation (which may raise).
ConvBnActivationCall(b, x) ==
    _activation(Tensor(b.conv.filters, SameOut(x.hw, b.conv.strides)), b.activation)

\* -------------------------------------------------------- _MobileNetV3Block
\* Mutant: the stride is not looked at.
ApplyResidualAnyStride(in_ch, out_ch, stride, allow_residual) ==
    allow_residual /\ in_ch = out_ch

\* self.apply_residual = allow_residual and (in_ch == out_ch and stride == 1)
ApplyResidual(in_ch, out_ch, stride, allow_residual) ==
    allow_residual /\ (in_ch = out_ch /\ stride = 1)

\* Mutant: the expansion is emitted whatever the channel counts.
ExpandLayersAlways(in_ch, exp_ch, activation) ==
    <<Conv2D(exp_ch, 1, 1, 1, FALSE), BatchNormalization, Lambda(activation)>>

\* if in_ch != exp_ch: pointwise convolution, normalization, activation.
ExpandLayers(in_ch, exp_ch, activation) ==
    IF in_ch # exp_ch
    THEN <<Conv2D(exp_ch, 1, 1, 1, FALSE), BatchNormalization, Lambda(activation)>>
    ELSE <<>>

\* Depthwise convolution, normalization, activation.
DepthwiseLayers(kernel_size, stride, dilation, activation) ==
    <<DepthwiseConv2D(kernel_size, stride, dilation), BatchNormalization,
      Lambda(activation)>>

\* if se_ratio is not None: the squeeze-and-excitation layer.
SELayers(exp_ch, se_ratio) ==
    IF se_ratio.some THEN <<_SqueezeAndExcitation(exp_ch, se_ratio)>> ELSE <<>>

\* Linear pointwise convolution and normalization, no activation afterwards.
ProjectLayers(out_ch) == <<Conv2D(out_ch, 1, 1, 1, FALSE), BatchNormalization>>

\* __init__: the fields, apply_residual and the layer list; the ValueError of
\* the squeeze-and-excitation constructor leaves no block.
_MobileNetV3Block(in_ch, exp_ch, out_ch, kernel_size, stride, dilation, se_ratio, activation, allow_residual, name) ==
    LET se == SELayers(exp_ch, se_ratio)
    IN  IF se # <<>> /\ se[1].err # "none"
        THEN [err |-> "ValueError"]
        ELSE [err |-> "none", name |-> name,
              in_ch |-> in_ch, exp_ch |-> exp_ch, out_ch |-> out_ch,
              kernel_size |-> kernel_size, stride |-> stride,
              dilation |-> dilation, se_ratio |-> se_ratio,
              activation |-> activation, allow_residual |-> allow_residual,
              apply_residual |-> ApplyResidual(in_ch, out_ch, stride, allow_residual),
              layers |-> ExpandLayers(in_ch, exp_ch, activation)
                         \o DepthwiseLayers(kernel_size, stride, dilation, activation)
                         \o se
                         \o ProjectLayers(out_ch)]

\* One layer applied to a tensor.
LayerCall(layer, x) ==
    CASE layer.kind = "Conv2D" ->
            [err |-> "none", x |-> Tensor(layer.filters, SameOut(x.hw, layer.strides))]
      [] layer.kind = "DepthwiseConv2D" ->
            [err |-> "none", x |-> Tensor(x.ch, SameOut(x.hw, layer.strides))]
      [] layer.kind = "Lambda" -> _activation(x, layer.activation)
      [] OTHER -> [err |-> "none", x |-> x]

\* for layer in self.layers: x = layer(x), from layer i on; ops collects the
\* kinds of the layers applied.
RECURSIVE RunLayers(_, _, _, _)
RunLayers(layers, i, x, ops) ==
    IF i > Len(layers)
    THEN [err |-> "none", x |-> x, ops |-> ops]
    ELSE LET r == LayerCall(layers[i], x)
         IN  IF r.err # "none"
             THEN [err |-> r.err, x |-> x, ops |-> ops]
             ELSE RunLayers(layers, i + 1, r.x, Append(ops, layers[i].kind))

\* call: the layers in order, then x += input when apply_residual.
MobileNetV3BlockCall(b, input) ==
    LET r == RunLayers(b.layers, 1, input, <<>>)
    IN  IF r.err # "none"
        THEN r
        ELSE IF b.apply_residual
             THEN [r EXCEPT !.ops = Append(r.ops, "Add")]
             ELSE r

\* ------------------------------------------------------------- conf.CONFIG
\* A stage-table row, in the order line 258 unpacks it.
Row(in_ch, exp_ch, out_ch, kernel_size, stride, dilation, se_ratio, activation) ==
    [in_ch |-> in_ch, exp_ch |-> exp_ch, out_ch |-> out_ch,
     kernel_size |-> kernel_size, stride |-> stride, dilation |-> dilation,
     se_ratio |-> se_ratio, activation |-> activation]

\* A variant name is the sequence of its words: "small_segmentation" is
\* <<"small", "_segmentation">>.  Python's `word in model_type` is HasWord.
HasWord(model_type, word) == \E k \in 1..Len(model_type) : model_type[k] = word

\* The registry as the configuration module leaves it at import.  Beside the
\* four regular variants it registers a name with neither size word, a table
\* with an unsupported activation and a table with a zero squeeze ratio.
CONFIG_INIT ==
    (<<"small">> :> <<Row(16, 16, 16, 3, 2, 1, Ratio(1, 4), "relu"),
                      Row(16, 72, 24, 3, 2, 1, None, "relu")>>)
 @@ (<<"large">> :> <<Row(16, 16, 16, 3, 1, 1, None, "relu"),
                      Row(16, 64, 24, 3, 2, 1, None, "relu")>>)
 @@ (<<"small", "_segmentation">> :>
                    <<Row(16, 16, 16, 3, 2, 1, Ratio(1, 4), "relu"),
                      Row(16, 72, 24, 3, 1, 2, None, "hardswish")>>)
 @@ (<<"large", "_detection">> :> <<Row(16, 16, 16, 3, 1, 1, None, "relu")>>)
 @@ (<<"custom">> :> <<Row(16, 16, 16, 3, 1, 1, None, "relu")>>)
 @@ (<<"small", "_swish">> :> <<Row(16, 16, 16, 3, 1, 1, None, "swish")>>)
 @@ (<<"large", "_se0">> :> <<Row(16, 16, 16, 3, 1, 1, Ratio(0, 1), "relu")>>)

\* ------------------------------------------------------ create_mobilenet_v3
Threads == {"t1", "t2"}

\* The calls a run draws from: every regular variant at a multiplier below,
\* at and above 1.0, with and without the classifier, and one call for each
\* configuration error.
Call(alpha, num_classes, model_type, has_classifier) ==
    [alpha |-> alpha, num_classes |-> num_classes, model_type |-> model_type,
     has_classifier |-> has_classifier]

RegularTypes == {<<"small">>, <<"large">>, <<"small", "_segmentation">>,
                 <<"large", "_detection">>}

Calls ==
    {Call(a, 1000, m, HasWord(m, "small")) :
        a \in {Rat(1, 2), Rat(1, 1), Rat(3, 2)}, m \in RegularTypes}
    \cup {Call(Rat(1, 2), 1000, <<"custom">>, TRUE),
          Call(Rat(1, 2), 1000, <<"small", "_swish">>, TRUE),
          Call(Rat(1, 2), 1000, <<"large", "_se0">>, TRUE),
          Call(Rat(1, 1), 1000, <<"medium">>, TRUE),
          Call(Rat(0, 1), 1000, <<"small">>, TRUE),
          Call(Rat(1, 1), 1, <<"large">>, FALSE)}

NoBlock == [out_ch |-> 0]

NoRow == Row(0, 0, 0, 0, 0, 0, None, "none")

\* The two stand-alone evaluations below, at rest.
RtIdle == [pc |-> "done", val |-> Rat(0, 1), divisor |-> 8, bias |-> DefaultBias,
           res |-> [err |-> "none", val |-> 0],
           res2 |-> [err |-> "none", val |-> 0]]

BlkIdle == [pc |-> "done", in_ch |-> 16, exp_ch |-> 16, out_ch |-> 16,
            kernel_size |-> 3, stride |-> 1, dilation |-> 1, se_ratio |-> None,
            activation |-> "relu", allow_residual |-> TRUE, hw |-> 8,
            block |-> [err |-> "none"],
            out |-> [err |-> "none", x |-> Tensor(16, 8), ops |-> <<>>]]

ThrIdle == [pc |-> "idle", alpha |-> Rat(1, 1), num_classes |-> 1000,
            model_type |-> <<"small">>, has_classifier |-> TRUE,
            idx |-> 0, c |-> NoRow, stem |-> NoBlock, blocks |-> <<>>, tail |-> NoBlock,
            head |-> <<>>, x |-> Tensor(3, 224), result |-> "none", err |-> "none"]

Init ==
    /\ CONFIG = CONFIG_INIT
    /\ thr = [t \in Threads |-> ThrIdle]
    /\ nbuilds = 0
    /\ rt = RtIdle
    /\ blk = BlkIdle

\* An exception leaves the call: no Model is returned.
Raise(t, e) == thr' = [thr EXCEPT ![t].pc = "failed", ![t].err = e]

\* The same, raised inside the loop over the rows, whose c is row.
RaiseAt(t, row, e) ==
    thr' = [thr EXCEPT ![t].c = row, ![t].pc = "failed", ![t].err = e]

\* Lines 234-238: the three assertions, then config = conf.CONFIG[model_type].
Start(t, a, n, m, h) ==
    /\ thr[t].pc \in {"idle", "done", "failed"}
    /\ nbuilds < MaxBuilds
    /\ nbuilds' = nbuilds + 1
    /\ LET call == [ThrIdle EXCEPT !.alpha = a, !.num_classes = n,
                                   !.model_type = m, !.has_classifier = h]
       IN  IF a.n > 0 /\ n > 1 /\ m \in DOMAIN CONFIG
           THEN thr' = [thr EXCEPT ![t] = [call EXCEPT !.pc = "scale", !.idx = 1]]
           ELSE thr' = [thr EXCEPT ![t] = [call EXCEPT !.pc = "failed",
                                                       !.err = "AssertionError"]]
    /\ UNCHANGED <<CONFIG, rt, blk>>

\* Lines 242-244 on one row c of the table.
ScaledRow(c, alpha) ==
    [c EXCEPT !.in_ch = Round8(Times(c.in_ch, alpha)),
              !.exp_ch = Round8(Times(c.exp_ch, alpha)),
              !.out_ch = Round8(Times(c.out_ch, alpha))]

\* Lines 241-244: one iteration of `for c in config`; config is the registry's
\* own list, so the assignments land in conf.CONFIG.  Calls running in
\* different threads interleave between iterations.
ScaleRow(t) ==
    /\ thr[t].pc = "scale"
    /\ LET m == thr[t].model_type
           i == thr[t].idx
       IN  /\ CONFIG' = [CONFIG EXCEPT ![m][i] = ScaledRow(CONFIG[m][i], thr[t].alpha)]
           /\ thr' = [thr EXCEPT ![t].idx = IF i < Len(CONFIG[m]) THEN i + 1 ELSE 1,
                                 ![t].pc = IF i < Len(CONFIG[m]) THEN "scale" ELSE "stem"]
    /\ UNCHANGED <<nbuilds, rt, blk>>

\* Lines 247-254: the first layer, on config[0][0] channels.
Stem(t) ==
    /\ thr[t].pc = "stem"
    /\ LET b == _ConvBnActivationBlock(CONFIG[thr[t].model_type][1].in_ch,
                                       3, 2, 1, 1, "hardswish")
           r == ConvBnActivationCall(b, thr[t].x)
       IN  thr' = [thr EXCEPT ![t].stem = b, ![t].x = r.x, ![t].pc = "blocks"]
    /\ UNCHANGED <<CONFIG, nbuilds, rt, blk>>

\* Lines 259-268: the block made from the unpacked row c, named after the
\* zero-based idx.  The call passes no dilation and no allow_residual, so the
\* block takes the defaults 1 and True.
BlockOfRow(c, idx) ==
    _MobileNetV3Block(c.in_ch, c.exp_ch, c.out_ch, c.kernel_size, c.stride,
                      1, c.se_ratio, c.activation, TRUE, <<"bottleneck", idx>>)

\* Lines 257-268: one iteration of `for idx, c in enumerate(config)`; c is the
\* row as the registry holds it at that moment.
Bottleneck(t) ==
    /\ thr[t].pc = "blocks"
    /\ LET m == thr[t].model_type
           i == thr[t].idx
           b == BlockOfRow(CONFIG[m][i], i - 1)
           r == MobileNetV3BlockCall(b, thr[t].x)
       IN  IF b.err # "none"
           THEN RaiseAt(t, CONFIG[m][i], b.err)
           ELSE IF r.err # "none"
                THEN RaiseAt(t, CONFIG[m][i], r.err)
                ELSE thr' = [thr EXCEPT
                        ![t].c = CONFIG[m][i],
                        ![t].blocks = Append(@, b),
                        ![t].x = r.x,
                        ![t].idx = i + 1,
                        ![t].pc = IF i < Len(CONFIG[m]) THEN "blocks" ELSE "tail"]
    /\ UNCHANGED <<CONFIG, nbuilds, rt, blk>>

\* Line 271: any(x in model_type for x in ["_segmentation", "_detection"])
ShallowTail(model_type) ==
    HasWord(model_type, "_segmentation") \/ HasWord(model_type, "_detection")

\* Lines 272-277: the tail width of the variant; 0 stands for the ValueError.
LastConvCh(model_type) ==
    IF HasWord(model_type, "large")
    THEN (IF ~ShallowTail(model_type) THEN 960 ELSE 480)
    ELSE IF HasWord(model_type, "small")
         THEN (IF ~ShallowTail(model_type) THEN 576 ELSE 288)
         ELSE 0

\* Mutant: the tail width is scaled at every multiplier.
ScaledLastConvChAlways(last_conv_ch, alpha) == Round8(Times(last_conv_ch, alpha))

\* Lines 279-280: if alpha < 1.0 the tail width is rounded too.
ScaledLastConvCh(last_conv_ch, alpha) ==
    IF alpha.n < alpha.d
    THEN Round8(Times(last_conv_ch, alpha))
    ELSE last_conv_ch

\* Lines 286-304: the classifier layers, or none.
Classifier(has_classifier, num_classes) ==
    IF has_classifier
    THEN <<[kind |-> "GlobalAveragePooling2D"], [kind |-> "Flatten"],
           [kind |-> "Dense", units |-> 1280, activation |-> "hard_swish"],
           [kind |-> "Dropout"],
           [kind |-> "Dense", units |-> num_classes, activation |-> "linear"]>>
    ELSE <<>>

\* Lines 270-306: tail width, tail block, classifier, keras.Model.
TailAndHead(t) ==
    /\ thr[t].pc = "tail"
    /\ LET m == thr[t].model_type
           base == LastConvCh(m)
           b == _ConvBnActivationBlock(ScaledLastConvCh(base, thr[t].alpha),
                                       1, 1, "same", 1, "hardswish")
           r == ConvBnActivationCall(b, thr[t].x)
           h == Classifier(thr[t].has_classifier, thr[t].num_classes)
       IN  IF base = 0
           THEN Raise(t, "ValueError")
           ELSE thr' = [thr EXCEPT
                   ![t].tail = b,
                   ![t].head = h,
                   ![t].x = IF h = <<>> THEN r.x ELSE Tensor(thr[t].num_classes, 1),
                   ![t].result = "Model",
                   ![t].pc = "done"]
    /\ UNCHANGED <<CONFIG, nbuilds, rt, blk>>

Next ==
    \E t \in Threads :
        \/ \E c \in Calls :
               Start(t, c.alpha, c.num_classes, c.model_type, c.has_classifier)
        \/ ScaleRow(t)
        \/ Stem(t)
        \/ Bottleneck(t)
        \/ TailAndHead(t)

Spec == Init /\ [][Next]_vars

\* --------------------------------------------- the rounding function alone
\* rt is one evaluation of _round_to_multiple_of on arguments drawn from the
\* bounded sets, followed by a second application to its own result.
Biases == {Rat(0, 10), Rat(1, 2), DefaultBias, Rat(10, 10), Rat(3, 2)}

\* Denominators of the values: powers of two, which a Python float holds
\* exactly, so that the float arithmetic of the source and the rational
\* arithmetic here agree.
Dens == {1, 2, 4}

InitRound ==
    /\ CONFIG = CONFIG_INIT
    /\ thr = [t \in Threads |-> ThrIdle]
    /\ nbuilds = MaxBuilds
    /\ blk = BlkIdle
    /\ \E n \in (-MaxNum)..MaxNum, d \in Dens, dv \in 1..MaxDiv, b \in Biases :
          rt = [RtIdle EXCEPT !.pc = "args", !.val = Rat(n, d), !.divisor = dv,
                              !.bias = b]

RoundOnce ==
    /\ rt.pc = "args"
    /\ rt' = [rt EXCEPT !.pc = "once",
                        !.res = _round_to_multiple_of(rt.val, rt.divisor, rt.bias)]
    /\ UNCHANGED <<CONFIG, thr, nbuilds, blk>>

RoundTwice ==
    /\ rt.pc = "once"
    /\ rt.res.err = "none"
    /\ rt' = [rt EXCEPT !.pc = "twice",
                        !.res2 = _round_to_multiple_of(Int2Rat(rt.res.val),
                                                       rt.divisor, rt.bias)]
    /\ UNCHANGED <<CONFIG, thr, nbuilds, blk>>

NextRound == RoundOnce \/ RoundTwice
\* ------------------------------------------------- a bottleneck block alone
\* blk is one _MobileNetV3Block built from arguments drawn from the sets
\* below and then called on a tensor of in_ch channels.
BlockChannels == {16, 24}
KernelSizes == {3, 5}
Strides == {1, 2}
Dilations == {1, 2}
SeRatios == {None, Ratio(0, 1), Ratio(1, 4)}
Activations == {"relu", "hardswish", "swish"}
InputSizes == {7, 8}

InitBlock ==
    /\ CONFIG = CONFIG_INIT
    /\ thr = [t \in Threads |-> ThrIdle]
    /\ nbuilds = MaxBuilds
    /\ rt = RtIdle
    /\ \E i \in BlockChannels, e \in BlockChannels, o \in BlockChannels,
       k \in KernelSizes, s \in Strides, dl \in Dilations, se \in SeRatios,
       a \in Activations, ar \in BOOLEAN, hw \in InputSizes :
        blk = [BlkIdle EXCEPT !.pc = "args", !.in_ch = i, !.exp_ch = e, !.out_ch = o,
                              !.kernel_size = k, !.stride = s, !.dilation = dl,
                              !.se_ratio = se, !.activation = a,
                              !.allow_residual = ar, !.hw = hw]

BlockInit ==
    /\ blk.pc = "args"
    /\ LET b == _MobileNetV3Block(blk.in_ch, blk.exp_ch, blk.out_ch, blk.kernel_size,
                                  blk.stride, blk.dilation, blk.se_ratio,
                                  blk.activation, blk.allow_residual, "block")
       IN  blk' = [blk EXCEPT !.pc = IF b.err = "none" THEN "built" ELSE "failed",
                              !.block = b]
    /\ UNCHANGED <<CONFIG, thr, nbuilds, rt>>

BlockCall ==
    /\ blk.pc = "built"
    /\ LET r == MobileNetV3BlockCall(blk.block, Tensor(blk.in_ch, blk.hw))
       IN  blk' = [blk EXCEPT !.pc = IF r.err = "none" THEN "called" ELSE "failed",
                              !.out = r]
    /\ UNCHANGED <<CONFIG, thr, nbuilds, rt>>

NextBlock == BlockInit \/ BlockCall

SpecRound == InitRound /\ [][NextRound]_vars

SpecBlock == InitBlock /\ [][NextBlock]_vars
\* The rounding function and the builds side by side: a run is either one
\* evaluation of the function or a sequence of builds.
InitScale == Init \/ InitRound

NextScale == Next \/ NextRound

SpecScale == InitScale /\ [][NextScale]_vars

\* ================================================================= claims
\* The reference rounding of the specification, in exact arithmetic:
\* candidate = max(divisor, floor((value + divisor/2) / divisor) * divisor),
\* advanced by one divisor when it is below bias * value.
RefCandidate(value, divisor) ==
    LET steps == (2 * value.n + divisor * value.d) \div (2 * value.d * divisor)
    IN  IF steps * divisor >= divisor THEN steps * divisor ELSE divisor

RefRound(value, divisor, bias) ==
    LET candidate == RefCandidate(value, divisor)
    IN  IF candidate * bias.d * value.d < bias.n * value.n
        THEN candidate + divisor
        ELSE candidate

ChannelFields(row) == <<row.in_ch, row.exp_ch, row.out_ch>>

\* The three channel fields of a row of the original table, scaled by alpha.
ScaledOriginal(m, i, alpha) ==
    <<Round8(Times(CONFIG_INIT[m][i].in_ch, alpha)),
      Round8(Times(CONFIG_INIT[m][i].exp_ch, alpha)),
      Round8(Times(CONFIG_INIT[m][i].out_ch, alpha))>>

\* C1: after any sequence of builds every channel field of every row of the
\* shared table still has the value it had before the first call.
C1_SharedTableUnchanged ==
    \A m \in DOMAIN CONFIG : \A i \in 1..Len(CONFIG[m]) :
        ChannelFields(CONFIG[m][i]) = ChannelFields(CONFIG_INIT[m][i])

\* C2: the channel counts a build passes to its stem and to each bottleneck
\* block are the original table's values scaled by its own alpha and rounded
\* to a multiple of 8, whatever other builds did or do.
C2_BuildsIndependent ==
    \A t \in Threads :
        /\ thr[t].pc \in {"blocks", "tail", "done"} =>
              thr[t].stem.out_ch =
                  ScaledOriginal(thr[t].model_type, 1, thr[t].alpha)[1]
        /\ \A i \in 1..Len(thr[t].blocks) :
              <<thr[t].blocks[i].in_ch, thr[t].blocks[i].exp_ch,
                thr[t].blocks[i].out_ch>>
                  = ScaledOriginal(thr[t].model_type, i, thr[t].alpha)

\* C3: a build that hits a configuration error returns no Network and leaves
\* the shared table as it was before the call; stated for the first call of a
\* run, before which the table is the original one.
C3_FailureIsAtomic ==
    \A t \in Threads :
        thr[t].pc = "failed" =>
            /\ thr[t].result = "none"
            /\ nbuilds = 1 => CONFIG = CONFIG_INIT

\* The i-th block of a build carries the row's parameters other than dilation,
\* and the name bottleneck<i-1>; a finished loop has one block per row.
BlocksFollowRows ==
    \A t \in Threads :
        /\ \A i \in 1..Len(thr[t].blocks) :
              LET b == thr[t].blocks[i]
                  row == CONFIG_INIT[thr[t].model_type][i]
              IN  /\ b.name = <<"bottleneck", i - 1>>
                  /\ b.kernel_size = row.kernel_size
                  /\ b.stride = row.stride
                  /\ b.se_ratio = row.se_ratio
                  /\ b.activation = row.activation
        /\ thr[t].blocks # <<>> =>
              LET b == thr[t].blocks[Len(thr[t].blocks)]
              IN  <<b.in_ch, b.exp_ch, b.out_ch>> = ChannelFields(thr[t].c)
        /\ thr[t].pc \in {"tail", "done"} =>
              Len(thr[t].blocks) = Len(CONFIG[thr[t].model_type])

\* C4: the build emits one bottleneck block per row, in row order, named
\* bottleneck0, bottleneck1, ..., and the i-th block has all eight parameters
\* of the i-th row, its dilation among them.
C4_BlockHasRowParameters ==
    /\ BlocksFollowRows
    /\ \A t \in Threads : \A i \in 1..Len(thr[t].blocks) :
          thr[t].blocks[i].dilation = CONFIG_INIT[thr[t].model_type][i].dilation

\* C5: a called block has added its input to the projection output exactly
\* when allow_residual holds, in_ch = out_ch and stride = 1; otherwise its
\* last operation is the projection's normalization.
C5_ResidualIffShapePreserved ==
    blk.pc = "called" =>
        LET ops == blk.out.ops
            n == Len(blk.block.layers)
            added == \E k \in 1..Len(ops) : ops[k] = "Add"
        IN  /\ added <=> (blk.allow_residual /\ blk.in_ch = blk.out_ch
                          /\ blk.stride = 1)
            /\ added => Len(ops) = n + 1 /\ ops[n + 1] = "Add"
            /\ ~added => Len(ops) = n /\ ops[n] = "BatchNormalization"

C5_Witness ==
    /\ blk.pc = "called"
    /\ blk.allow_residual /\ blk.in_ch = blk.out_ch /\ blk.stride = 1
    /\ blk.out.ops[Len(blk.out.ops)] = "Add"

\* The tail width the specification gives a variant at a multiplier.
TailBase(model_type) ==
    CASE model_type = <<"large">> -> 960
      [] model_type = <<"large", "_detection">> -> 480
      [] model_type = <<"small">> -> 576
      [] model_type = <<"small", "_segmentation">> -> 288
      [] OTHER -> 0

\* C6: the tail block's out_channels is the variant's base (960, 480, 576 or
\* 288), unscaled when alpha >= 1 and rounded from base * alpha when
\* alpha < 1; build(large, 1.0) has 960, build(small_segmentation, 1.0) 288.
C6_TailWidth ==
    \A t \in Threads :
        thr[t].pc = "done" =>
            LET m == thr[t].model_type
                a == thr[t].alpha
            IN  /\ thr[t].tail.out_ch =
                      IF a.n >= a.d THEN TailBase(m)
                      ELSE RefRound(Times(TailBase(m), a), 8, Rat(9, 10))
                /\ (m = <<"large">> /\ a = Rat(1, 1)) => thr[t].tail.out_ch = 960
                /\ (m = <<"small", "_segmentation">> /\ a = Rat(1, 1)) =>
                      thr[t].tail.out_ch = 288

C6_Witness ==
    \E t \in Threads :
        /\ thr[t].pc = "done"
        /\ thr[t].model_type = <<"large", "_detection">>
        /\ thr[t].alpha = Rat(1, 2)
        /\ thr[t].tail.out_ch = 240

\* C7: for 0 < bias < 1 the function returns the reference rounding; a bias
\* outside (0, 1) is rejected; (83, 8) gives 80 and (84, 8) gives 88 with the
\* default bias.
C7_MatchesReference ==
    rt.pc \in {"once", "twice"} =>
        /\ (0 < rt.bias.n /\ rt.bias.n < rt.bias.d) =>
              /\ rt.res.err = "none"
              /\ rt.res.val = RefRound(rt.val, rt.divisor, rt.bias)
        /\ ~(0 < rt.bias.n /\ rt.bias.n < rt.bias.d) => rt.res.err # "none"
        /\ (rt.val = Rat(83, 1) /\ rt.divisor = 8 /\ rt.bias = Rat(9, 10)) =>
              rt.res.val = 80
        /\ (rt.val = Rat(84, 1) /\ rt.divisor = 8 /\ rt.bias = Rat(9, 10)) =>
              rt.res.val = 88

\* The candidate 8 is below 0.9 * 10, so the next multiple is returned.
C7_Witness ==
    /\ rt.pc = "once"
    /\ rt.val = Rat(10, 1) /\ rt.divisor = 8 /\ rt.bias = Rat(9, 10)
    /\ rt.res.err = "none" /\ rt.res.val = 16

PositiveMultiple(k, divisor) == k > 0 /\ k % divisor = 0

\* C8: every value the function returns is a positive multiple of the
\* divisor, and every channel count a build has written into the table it
\* scales is a positive multiple of 8.
C8_PositiveMultiple ==
    /\ (rt.pc \in {"once", "twice"} /\ rt.res.err = "none") =>
          PositiveMultiple(rt.res.val, rt.divisor)
    /\ \A t \in Threads :
          LET m == thr[t].model_type
              written == IF thr[t].pc = "scale" THEN thr[t].idx - 1
                         ELSE IF thr[t].pc \in {"stem", "blocks", "tail", "done"}
                              THEN Len(CONFIG[m])
                              ELSE 0
          IN  \A i \in 1..written : \A f \in 1..3 :
                  PositiveMultiple(ChannelFields(CONFIG[m][i])[f], 8)

\* A value far below one divisor step is still rounded to the divisor.
C8_Witness ==
    /\ rt.pc = "once"
    /\ rt.val = Rat(-5, 2) /\ rt.divisor = 3 /\ rt.bias = Rat(1, 2)
    /\ rt.res.val = 3

\* C9: rounding to a multiple of 8 twice gives what rounding once gives.
C9_Idempotent ==
    (rt.pc = "twice" /\ rt.divisor = 8 /\ rt.bias = Rat(9, 10)) =>
        /\ rt.res2.err = "none"
        /\ rt.res2.val = rt.res.val

C9_Witness ==
    /\ rt.pc = "twice"
    /\ rt.val = Rat(37, 4) /\ rt.divisor = 8 /\ rt.bias = Rat(9, 10)
    /\ rt.res.val = 16 /\ rt.res2.val = 16

\* C10: a block's layers are, in order, the expansion (pointwise convolution,
\* normalization, activation) exactly when in_ch # exp_ch; the depthwise
\* convolution, normalization, activation; the squeeze-and-excitation on
\* exp_ch exactly when a ratio is given; and last the pointwise projection to
\* out_ch and its normalization, with no activation after it.
C10_LayerOrder ==
    blk.pc \in {"built", "called"} =>
        LET L == blk.block.layers
            off == IF blk.in_ch # blk.exp_ch THEN 3 ELSE 0
            gate == IF blk.se_ratio.some THEN 1 ELSE 0
            n == Len(L)
        IN  /\ n = off + 3 + gate + 2
            /\ off = 3 =>
                  /\ L[1].kind = "Conv2D" /\ L[1].filters = blk.exp_ch
                  /\ L[1].kernel_size = 1 /\ ~L[1].use_bias
                  /\ L[2].kind = "BatchNormalization"
                  /\ L[3].kind = "Lambda" /\ L[3].activation = blk.activation
            /\ L[off + 1].kind = "DepthwiseConv2D"
            /\ L[off + 1].kernel_size = blk.kernel_size
            /\ L[off + 1].strides = blk.stride
            /\ L[off + 1].dilation_rate = blk.dilation
            /\ L[off + 2].kind = "BatchNormalization"
            /\ L[off + 3].kind = "Lambda" /\ L[off + 3].activation = blk.activation
            /\ gate = 1 =>
                  /\ L[off + 4].kind = "_SqueezeAndExcitation"
                  /\ L[off + 4].channels = blk.exp_ch
            /\ Cardinality({k \in 1..n : L[k].kind = "_SqueezeAndExcitation"}) = gate
            /\ Cardinality({k \in 1..n : L[k].kind = "Conv2D"}) = 1 + off \div 3
            /\ Cardinality({k \in 1..n : L[k].kind = "DepthwiseConv2D"}) = 1
            /\ L[n - 1].kind = "Conv2D" /\ L[n - 1].filters = blk.out_ch
            /\ L[n - 1].kernel_size = 1 /\ ~L[n - 1].use_bias
            /\ L[n].kind = "BatchNormalization"

C10_Witness ==
    /\ blk.pc = "built"
    /\ blk.in_ch # blk.exp_ch /\ blk.se_ratio.some
    /\ Len(blk.block.layers) = 9
    /\ blk.block.layers[7].kind = "_SqueezeAndExcitation"
====
